---- MODULE Spec2Model ----
(***************************************************************************)
(* pygom.utilR.distn: R-style distribution functions (d/p/q/r per family)  *)
(* forwarding to scipy.stats / numpy.random, the negative-binomial facade  *)
(* dnbinom with the NB2 density nb2pmf, and the seed resolver test_seed.   *)
(*                                                                         *)
(* Values are records whose field names tell their kind, so that two       *)
(* values of different kinds are simply unequal:                           *)
(*   [num, den]            a real number, kept as a fraction               *)
(*   [none]                Python's None                                   *)
(*   [vec] / [mat]         a vector / a matrix (multivariate normal)       *)
(*   [lib, fn, arg, kw]    the value a delegate (scipy.stats) returns      *)
(*   [seedt, sv]           a seed argument                                 *)
(*   [src, id, pos]        the state of a pseudo-random generator          *)
(*   [dist, kw, u]         one random variate                              *)
(*   [shape, items]        what a random-variate function returns          *)
(***************************************************************************)
EXTENDS Integers, Sequences, FiniteSets

VARIABLES
    glob,   \* state of numpy's global generator (np.random)
    gens,   \* states of the RandomState objects the caller holds
    call    \* the last call of the library: its arguments and its outcome

vars == <<glob, gens, call>>

(***************************************************************************)
(* Bounds of the model                                                     *)
(***************************************************************************)
MaxN == 2      \* the largest number of draws asked of one call
MaxPos == 2    \* a generator that outlives a call is advanced at most to MaxPos

(***************************************************************************)
(* Numbers                                                                 *)
(***************************************************************************)
RECURSIVE GCD(_, _)
GCD(a, b) == IF b = 0 THEN a ELSE GCD(b, a % b)

Abs(a) == IF a < 0 THEN -a ELSE a

\* the fraction n/d (d > 0) in lowest terms
Rat(n, d) ==
    LET g == GCD(Abs(n), d)
    IN  [num |-> n \div g, den |-> d \div g]

RatSub(a, b) == Rat(a.num * b.den - b.num * a.den, a.den * b.den)

RatAdd(a, b) == Rat(a.num * b.den + b.num * a.den, a.den * b.den)

\* 1.0/r for r > 0
Recip(r) == Rat(r.den, r.num)

NoneV == [none |-> 0]

IsNone(v) == v = NoneV

(***************************************************************************)
(* Inputs                                                                  *)
(***************************************************************************)
\* positive reals: rates, shapes, standard deviations, degrees of freedom, means
Reals == {Rat(1, 2), Rat(2, 1)}

\* the parameter the one-parameter random-variate functions are called with
RReals == {Rat(1, 2)}

\* two-parameter families take one of these pairs
Pairs == {<<Rat(1, 2), Rat(2, 1)>>, <<Rat(2, 1), Rat(2, 1)>>}
RPairs == {<<Rat(1, 2), Rat(2, 1)>>}

\* (min, max) of a uniform law, min < max
Bounds == {<<Rat(0, 1), Rat(1, 1)>>, <<Rat(1, 2), Rat(2, 1)>>}
RBounds == {<<Rat(1, 2), Rat(2, 1)>>}

\* (size, prob) of a binomial law
SizeProb == {<<Rat(2, 1), Rat(1, 2)>>, <<Rat(3, 1), Rat(1, 4)>>}
RSizeProb == {<<Rat(2, 1), Rat(1, 2)>>}

\* mean vector and covariance matrix of a bivariate normal law
MeanVec == [vec |-> <<1, 2>>]
Sigma == [mat |-> <<<<2, 0>>, <<0, 2>>>>]

\* observations and probabilities the density, cumulative and quantile
\* functions are evaluated at
Obs == {Rat(1, 1), Rat(3, 2)}
Probs == {Rat(1, 4)}

\* an observation of the bivariate normal law
ObsVec == [vec |-> <<1, 3>>]

\* n = 1 (a scalar is returned) and n > 1 (an array is returned)
Ns == {1, MaxN}

GenIds == {1}

NoSeed == [seedt |-> "None", sv |-> 0]

\* None, True, False, integers (0 is falsy), a RandomState object the caller
\* holds, a string and a float
Seeds ==
    {NoSeed}
    \cup {[seedt |-> "bool", sv |-> b] : b \in {0, 1}}
    \cup {[seedt |-> "int", sv |-> k] : k \in {0, 5}}
    \cup {[seedt |-> "RandomState", sv |-> g] : g \in GenIds}
    \cup {[seedt |-> "str", sv |-> 1], [seedt |-> "float", sv |-> 1]}

\* what the operating system's entropy source may seed a RandomState() with
Entropy == {1, 2}

(***************************************************************************)
(* Generators                                                              *)
(***************************************************************************)
\* np.random.RandomState(k): the stream of seed k, at its start
RandomState(k) == [src |-> "seed", id |-> k, pos |-> 0]

\* np.random.RandomState(): a stream seeded from the OS entropy e
RandomStateFresh(e) == [src |-> "os", id |-> e, pos |-> 0]

\* the n variates a sampler draws from a generator in state st
Variates(st, dist, kw, n) ==
    [i \in 1..n |->
        [dist |-> dist, kw |-> kw,
         u |-> [src |-> st.src, id |-> st.id, at |-> st.pos + i - 1]]]

Advance(st, n) == [st EXCEPT !.pos = @ + n]

Array(items) == [shape |-> "array", items |-> items]

\* a[0]
Index0(a) == [shape |-> "scalar", items |-> <<a.items[1]>>]

\* `if seed:`
Truthy(seed) ==
    CASE seed.seedt = "None" -> FALSE
      [] seed.seedt \in {"bool", "int", "float"} -> seed.sv # 0
      [] OTHER -> TRUE

\* isinstance(seed, int): bool is a subclass of int
IsInstanceInt(seed) == seed.seedt \in {"int", "bool"}

SeedError == "RuntimeError: seed must be (bool, int or np.random.RandomState"

\* test_seed(seed), with g the global generator's state, heap the caller's
\* RandomState objects and e the entropy a new RandomState() would get.
\* own says whose generator is returned: a "private" new object or the
\* "caller"'s object id.
test_seed(seed, g, heap, e) ==
    IF seed.seedt = "bool" /\ seed.sv = 1
    THEN [err |-> "", gen |-> RandomStateFresh(e), own |-> "private", id |-> 0]
    ELSE IF seed.seedt = "RandomState"
    THEN [err |-> "", gen |-> heap[seed.sv], own |-> "caller", id |-> seed.sv]
    ELSE IF IsInstanceInt(seed)
    THEN [err |-> "", gen |-> RandomState(seed.sv), own |-> "private", id |-> 0]
    ELSE IF seed.seedt = "bool" /\ seed.sv = 0
    THEN \* get_state() of the global generator, set_state() on a new object
         [err |-> "", gen |-> [RandomStateFresh(e) EXCEPT
                                  !.src = g.src, !.id = g.id, !.pos = g.pos],
          own |-> "private", id |-> 0]
    ELSE [err |-> SeedError, gen |-> g, own |-> "private", id |-> 0]

\* the generator the first lines of a random-variate function select:
\*   if seed is None: rvs = np.random.<sampler>
\*   else:            rvs = test_seed(seed).<sampler>
SelectRvs(seed, e) ==
    IF seed.seedt = "None"
    THEN [err |-> "", gen |-> glob, own |-> "global", id |-> 0]
    ELSE test_seed(seed, glob, gens, e)

\* the generator a call of scipy.stats' <dist>.rvs draws from: the global one
ScipyRvs == [err |-> "", gen |-> glob, own |-> "global", id |-> 0]

\* a generator that outlives the call stays within the model's bound
InBound(sel, n) == sel.own = "private" \/ sel.gen.pos + n <= MaxPos

\* the record of a delegate's sampler called with size = n
RvsCall(lib, fn, kw, n) == [lib |-> lib, fn |-> fn, arg |-> [size |-> n], kw |-> kw]

LibOf(sel) == IF sel.own = "global" THEN "np.random" ELSE "RandomState"

\* the record of a call: what was called with what, and what came of it
CallRec(fn, arg, par, log, seed, n, out) ==
    [fn |-> fn, arg |-> arg, par |-> par, log |-> log, seed |-> seed, n |-> n,
     err |-> out.err, res |-> out.res, trace |-> out.trace]

Raised(err, trace) == [err |-> err, res |-> NoneV, trace |-> trace]

Returned(res, trace) == [err |-> "", res |-> res, trace |-> trace]

\* a failed call leaves every generator as it was
Fails(err) == [ok |-> TRUE, out |-> Raised(err, <<>>), glob |-> glob, gens |-> gens]

\* drawing the n variates `a` from the selected generator advances it
Draws(sel, n, res, trace) ==
    [ok   |-> InBound(sel, n),
     out  |-> Returned(res, trace),
     glob |-> IF sel.own = "global" THEN Advance(glob, n) ELSE glob,
     gens |-> IF sel.own = "caller"
              THEN [gens EXCEPT ![sel.id] = Advance(@, n)]
              ELSE gens]

\* the common body of rexp, rgamma, rnorm, rchisq, rpois and rbinom:
\*   if seed is None: rvs = np.random.<dist>  else: rvs = test_seed(seed).<dist>
\*   if n > 1: return rvs(<kw>, size=n)  else: return rvs(<kw>, size=n)[0]
Sample(dist, kw, n, seed, e) ==
    LET sel == SelectRvs(seed, e)
        a == Array(Variates(sel.gen, dist, kw, n))
    IN  IF sel.err # ""
        THEN Fails(sel.err)
        ELSE Draws(sel, n, IF n > 1 THEN a ELSE Index0(a),
                   <<RvsCall(LibOf(sel), dist, kw, n)>>)

\* the entropy a call may consume: only RandomState() reads the OS source
EntropyFor(seed) ==
    IF seed.seedt = "bool" THEN Entropy ELSE {CHOOSE e \in Entropy : TRUE}

rexp ==
    \E n \in Ns, rate \in RReals, seed \in Seeds : \E e \in EntropyFor(seed) :
        LET s == Sample("exponential", [scale |-> Recip(rate)], n, seed, e)
        IN  /\ s.ok
            /\ call' = CallRec("rexp", NoneV, [rate |-> rate], FALSE, seed, n, s.out)
            /\ glob' = s.glob
            /\ gens' = s.gens

rgamma ==
    \E n \in Ns, sr \in RPairs, seed \in Seeds : \E e \in EntropyFor(seed) :
        LET s == Sample("gamma", [shape |-> sr[1], scale |-> Recip(sr[2])], n, seed, e)
        IN  /\ s.ok
            /\ call' = CallRec("rgamma", NoneV, [shape |-> sr[1], rate |-> sr[2]],
                               FALSE, seed, n, s.out)
            /\ glob' = s.glob
            /\ gens' = s.gens

rnorm ==
    \E n \in Ns, ms \in RPairs, seed \in Seeds : \E e \in EntropyFor(seed) :
        LET s == Sample("normal", [loc |-> ms[1], scale |-> ms[2]], n, seed, e)
        IN  /\ s.ok
            /\ call' = CallRec("rnorm", NoneV, [mean |-> ms[1], sd |-> ms[2]],
                               FALSE, seed, n, s.out)
            /\ glob' = s.glob
            /\ gens' = s.gens

rchisq ==
    \E n \in Ns, df \in RReals, seed \in Seeds : \E e \in EntropyFor(seed) :
        LET s == Sample("chisquare", [df |-> df], n, seed, e)
        IN  /\ s.ok
            /\ call' = CallRec("rchisq", NoneV, [df |-> df], FALSE, seed, n, s.out)
            /\ glob' = s.glob
            /\ gens' = s.gens

\* runif: the generator is selected as in the other families, but
\*   if seed:  st.uniform.rvs(loc=min, scale=max-min, size=n)   (scipy: global generator)
\*   else:     rvs(low=min, high=max, size=n)
runif_body(n, min, max, seed, e) ==
    LET sel == SelectRvs(seed, e)
        kwS == [loc |-> min, scale |-> RatSub(max, min)]
        kwN == [low |-> min, high |-> max]
        aS  == Array(Variates(ScipyRvs.gen, "uniform", kwS, n))
        aN  == Array(Variates(sel.gen, "uniform", kwN, n))
    IN  IF sel.err # ""
        THEN Fails(sel.err)
        ELSE IF Truthy(seed)
        THEN Draws(ScipyRvs, n, IF n > 1 THEN aS ELSE Index0(aS),
                   <<RvsCall("st.uniform", "rvs", kwS, n)>>)
        ELSE Draws(sel, n, IF n > 1 THEN aN ELSE Index0(aN),
                   <<RvsCall(LibOf(sel), "uniform", kwN, n)>>)

runif ==
    \E n \in Ns, mm \in RBounds, seed \in Seeds : \E e \in EntropyFor(seed) :
        LET s == runif_body(n, mm[1], mm[2], seed, e)
        IN  /\ s.ok
            /\ call' = CallRec("runif", NoneV, [min |-> mm[1], max |-> mm[2]],
                               FALSE, seed, n, s.out)
            /\ glob' = s.glob
            /\ gens' = s.gens

\* rbeta: return st.beta.rvs(shape1, shape2, size=n); seed is not read
rbeta ==
    \E n \in Ns, ab \in RPairs, seed \in Seeds :
        LET kw == [a |-> ab[1], b |-> ab[2]]
            s  == Draws(ScipyRvs, n, Array(Variates(glob, "beta", kw, n)),
                        <<RvsCall("st.beta", "rvs", kw, n)>>)
        IN  /\ s.ok
            /\ call' = CallRec("rbeta", NoneV, [shape1 |-> ab[1], shape2 |-> ab[2]],
                               FALSE, seed, n, s.out)
            /\ glob' = s.glob
            /\ gens' = s.gens

\* scipy's multivariate_normal.rvs squeezes its output: with size=1 it returns
\* the one draw (a vector), not an array holding it
SqueezeOutput(a) == IF Len(a.items) = 1 THEN Index0(a) ELSE a

\* rmvnorm: return st.multivariate_normal.rvs(mean=mean, cov=sigma, size=n);
\* seed is not read
rmvnorm ==
    \E n \in Ns, seed \in Seeds :
        LET kw == [mean |-> MeanVec, cov |-> Sigma]
            s  == Draws(ScipyRvs, n,
                        SqueezeOutput(Array(Variates(glob, "multivariate_normal", kw, n))),
                        <<RvsCall("st.multivariate_normal", "rvs", kw, n)>>)
        IN  /\ s.ok
            /\ call' = CallRec("rmvnorm", NoneV, [mean |-> MeanVec, sigma |-> Sigma],
                               FALSE, seed, n, s.out)
            /\ glob' = s.glob
            /\ gens' = s.gens

rpois ==
    \E n \in Ns, mu \in RReals, seed \in Seeds : \E e \in EntropyFor(seed) :
        LET s == Sample("poisson", [lam |-> mu], n, seed, e)
        IN  /\ s.ok
            /\ call' = CallRec("rpois", NoneV, [mu |-> mu], FALSE, seed, n, s.out)
            /\ glob' = s.glob
            /\ gens' = s.gens

rbinom ==
    \E n \in Ns, sp \in RSizeProb, seed \in Seeds : \E e \in EntropyFor(seed) :
        LET s == Sample("binomial", [n |-> sp[1], p |-> sp[2]], n, seed, e)
        IN  /\ s.ok
            /\ call' = CallRec("rbinom", NoneV, [size |-> sp[1], prob |-> sp[2]],
                               FALSE, seed, n, s.out)
            /\ glob' = s.glob
            /\ gens' = s.gens

(***************************************************************************)
(* scipy.stats, the delegate of the density, cumulative and quantile       *)
(* functions.  A value it returns is the record of the call that made it;  *)
(* ppf and cdf of one law undo each other.                                 *)
(***************************************************************************)
RatLt(a, b) == a.num * b.den < b.num * a.den

IsRat(v) == "num" \in DOMAIN v

IsTerm(v) == "lib" \in DOMAIN v

Continuous == {"expon", "gamma", "norm", "chi2", "uniform", "beta"}

\* the keyword arguments a law's methods take
Accepted(lib) ==
    CASE lib = "expon" -> {"loc", "scale"}
      [] lib = "gamma" -> {"a", "loc", "scale"}
      [] lib = "norm" -> {"loc", "scale"}
      [] lib = "chi2" -> {"df", "loc", "scale"}
      [] lib = "uniform" -> {"loc", "scale"}
      [] lib = "beta" -> {"a", "b", "loc", "scale"}
      [] lib = "poisson" -> {"mu", "loc"}
      [] lib = "binom" -> {"n", "p", "loc"}
      [] lib = "nbinom" -> {"n", "p", "loc"}
      [] lib = "multivariate_normal" -> {"mean", "cov"}

\* x lies strictly inside the support of the law (for a discrete law: x is a
\* point of its support)
Inside(lib, kw, x) ==
    /\ IsRat(x)
    /\ CASE lib \in {"expon", "gamma", "chi2"} -> x.num > 0
         [] lib = "norm" -> TRUE
         [] lib = "uniform" ->
                RatLt(kw.loc, x) /\ RatLt(x, RatAdd(kw.loc, kw.scale))
         [] lib = "beta" -> x.num > 0 /\ RatLt(x, Rat(1, 1))
         [] lib = "poisson" -> x.den = 1 /\ x.num >= 0
         [] lib \in {"binom", "nbinom"} ->
                x.den = 1 /\ x.num >= 0 /\ ~RatLt(kw.n, x)
         [] OTHER -> FALSE

\* p is a probability strictly between 0 and 1
IsProb(p) == IsRat(p) /\ p.num > 0 /\ p.num < p.den

\* the value of lib.fn(arg, **kw)
Value(lib, fn, arg, kw) ==
    IF /\ fn = "ppf" /\ IsTerm(arg)
       /\ arg.lib = lib /\ arg.fn = "cdf" /\ arg.kw = kw
       /\ Inside(lib, kw, arg.arg)
    THEN arg.arg
    ELSE IF /\ fn = "cdf" /\ IsTerm(arg)
            /\ arg.lib = lib /\ arg.fn = "ppf" /\ arg.kw = kw
            /\ lib \in Continuous /\ IsProb(arg.arg)
    THEN arg.arg
    ELSE [lib |-> lib, fn |-> fn, arg |-> arg, kw |-> kw]

\* the call st.<lib>.<fn>(arg, **kw): a keyword the law does not take is a
\* TypeError
St(lib, fn, arg, kw) ==
    LET c == [lib |-> lib, fn |-> fn, arg |-> arg, kw |-> kw]
    IN  IF DOMAIN kw \subseteq Accepted(lib)
        THEN Returned(Value(lib, fn, arg, kw), <<c>>)
        ELSE Raised("TypeError", <<c>>)

\* what a caller may pass on: the value the last call returned, when that
\* call was fn without log at a plain number
Feed(fn) ==
    IF call.fn = fn /\ call.err = "" /\ ~call.log /\ IsRat(call.arg)
    THEN {call.res}
    ELSE {}

(***************************************************************************)
(* Continuous distributions                                                *)
(***************************************************************************)
\* dexp that passes the rate as the scale
dexp_ScaleIsRate ==
    \E x \in Obs, rate \in Reals, log \in BOOLEAN :
        /\ call' = CallRec("dexp", x, [rate |-> rate], log, NoSeed, 0,
                IF log
                THEN St("expon", "logpdf", x, [scale |-> rate])
                ELSE St("expon", "pdf", x, [scale |-> rate]))
        /\ UNCHANGED <<glob, gens>>

dexp ==
    \E x \in Obs, rate \in Reals, log \in BOOLEAN :
        /\ call' = CallRec("dexp", x, [rate |-> rate], log, NoSeed, 0,
                IF log
                THEN St("expon", "logpdf", x, [scale |-> Recip(rate)])
                ELSE St("expon", "pdf", x, [scale |-> Recip(rate)]))
        /\ UNCHANGED <<glob, gens>>

pexp ==
    \E q \in Obs \cup Feed("qexp"), rate \in Reals, log \in BOOLEAN :
        /\ call' = CallRec("pexp", q, [rate |-> rate], log, NoSeed, 0,
                IF log
                THEN St("expon", "logcdf", q, [scale |-> Recip(rate)])
                ELSE St("expon", "cdf", q, [scale |-> Recip(rate)]))
        /\ UNCHANGED <<glob, gens>>

qexp ==
    \E p \in Probs \cup Feed("pexp"), rate \in Reals :
        /\ call' = CallRec("qexp", p, [rate |-> rate], FALSE, NoSeed, 0,
                St("expon", "ppf", p, [scale |-> Recip(rate)]))
        /\ UNCHANGED <<glob, gens>>

dgamma ==
    \E x \in Obs, sr \in Pairs, log \in BOOLEAN :
        /\ call' = CallRec("dgamma", x, [shape |-> sr[1], rate |-> sr[2]], log, NoSeed, 0,
                IF log
                THEN St("gamma", "logpdf", x, [a |-> sr[1], scale |-> Recip(sr[2])])
                ELSE St("gamma", "pdf", x, [a |-> sr[1], scale |-> Recip(sr[2])]))
        /\ UNCHANGED <<glob, gens>>

pgamma ==
    \E q \in Obs \cup Feed("qgamma"), sr \in Pairs, log \in BOOLEAN :
        /\ call' = CallRec("pgamma", q, [shape |-> sr[1], rate |-> sr[2]], log, NoSeed, 0,
                IF log
                THEN St("gamma", "logcdf", q, [a |-> sr[1], scale |-> Recip(sr[2])])
                ELSE St("gamma", "cdf", q, [a |-> sr[1], scale |-> Recip(sr[2])]))
        /\ UNCHANGED <<glob, gens>>

qgamma ==
    \E q \in Probs \cup Feed("pgamma"), sr \in Pairs :
        /\ call' = CallRec("qgamma", q, [shape |-> sr[1], rate |-> sr[2]], FALSE, NoSeed, 0,
                St("gamma", "ppf", q, [a |-> sr[1], scale |-> Recip(sr[2])]))
        /\ UNCHANGED <<glob, gens>>

dnorm ==
    \E x \in Obs, ms \in Pairs, log \in BOOLEAN :
        /\ call' = CallRec("dnorm", x, [mean |-> ms[1], sd |-> ms[2]], log, NoSeed, 0,
                IF log
                THEN St("norm", "logpdf", x, [loc |-> ms[1], scale |-> ms[2]])
                ELSE St("norm", "pdf", x, [loc |-> ms[1], scale |-> ms[2]]))
        /\ UNCHANGED <<glob, gens>>

pnorm ==
    \E q \in Obs \cup Feed("qnorm"), ms \in Pairs, log \in BOOLEAN :
        /\ call' = CallRec("pnorm", q, [mean |-> ms[1], sd |-> ms[2]], log, NoSeed, 0,
                IF log
                THEN St("norm", "logcdf", q, [loc |-> ms[1], scale |-> ms[2]])
                ELSE St("norm", "cdf", q, [loc |-> ms[1], scale |-> ms[2]]))
        /\ UNCHANGED <<glob, gens>>

qnorm ==
    \E p \in Probs \cup Feed("pnorm"), ms \in Pairs :
        /\ call' = CallRec("qnorm", p, [mean |-> ms[1], sd |-> ms[2]], FALSE, NoSeed, 0,
                St("norm", "ppf", p, [loc |-> ms[1], scale |-> ms[2]]))
        /\ UNCHANGED <<glob, gens>>

dchisq ==
    \E x \in Obs, df \in Reals, log \in BOOLEAN :
        /\ call' = CallRec("dchisq", x, [df |-> df], log, NoSeed, 0,
                IF log
                THEN St("chi2", "logpdf", x, [df |-> df])
                ELSE St("norm", "pdf", x, [df |-> df]))
        /\ UNCHANGED <<glob, gens>>

pchisq ==
    \E x \in Obs \cup Feed("qchisq"), df \in Reals, log \in BOOLEAN :
        /\ call' = CallRec("pchisq", x, [df |-> df], log, NoSeed, 0,
                IF log
                THEN St("chi2", "logpdf", x, [df |-> df])
                ELSE St("chi2", "pdf", x, [df |-> df]))
        /\ UNCHANGED <<glob, gens>>

qchisq ==
    \E p \in Probs \cup Feed("pchisq"), df \in Reals :
        /\ call' = CallRec("qchisq", p, [df |-> df], FALSE, NoSeed, 0,
                St("chi2", "ppf", p, [df |-> df]))
        /\ UNCHANGED <<glob, gens>>

dunif ==
    \E x \in Obs, mm \in Bounds, log \in BOOLEAN :
        /\ call' = CallRec("dunif", x, [min |-> mm[1], max |-> mm[2]], log, NoSeed, 0,
                IF log
                THEN St("uniform", "logpdf", x, [loc |-> mm[1], scale |-> RatSub(mm[2], mm[1])])
                ELSE St("uniform", "pdf", x, [loc |-> mm[1], scale |-> RatSub(mm[2], mm[1])]))
        /\ UNCHANGED <<glob, gens>>

punif ==
    \E q \in Obs \cup Feed("qunif"), mm \in Bounds, log \in BOOLEAN :
        /\ call' = CallRec("punif", q, [min |-> mm[1], max |-> mm[2]], log, NoSeed, 0,
                IF log
                THEN St("uniform", "logcdf", q, [loc |-> mm[1], scale |-> RatSub(mm[2], mm[1])])
                ELSE St("uniform", "cdf", q, [loc |-> mm[1], scale |-> RatSub(mm[2], mm[1])]))
        /\ UNCHANGED <<glob, gens>>

qunif ==
    \E p \in Probs \cup Feed("punif"), mm \in Bounds :
        /\ call' = CallRec("qunif", p, [min |-> mm[1], max |-> mm[2]], FALSE, NoSeed, 0,
                St("uniform", "ppf", p, [loc |-> mm[1], scale |-> RatSub(mm[2], mm[1])]))
        /\ UNCHANGED <<glob, gens>>

\* dbeta: return st.beta.pdf(x, shape1, shape2); log is not read
dbeta ==
    \E x \in Obs, ab \in Pairs, log \in BOOLEAN :
        /\ call' = CallRec("dbeta", x, [shape1 |-> ab[1], shape2 |-> ab[2]], log, NoSeed, 0,
                St("beta", "pdf", x, [a |-> ab[1], b |-> ab[2]]))
        /\ UNCHANGED <<glob, gens>>

qbeta ==
    \E p \in Probs, ab \in Pairs :
        /\ call' = CallRec("qbeta", p, [shape1 |-> ab[1], shape2 |-> ab[2]], FALSE, NoSeed, 0,
                St("beta", "ppf", p, [a |-> ab[1], b |-> ab[2]]))
        /\ UNCHANGED <<glob, gens>>

\* np.repeat(0, n) and np.identity(n)
Repeat0(n) == [vec |-> [i \in 1..n |-> 0]]
Identity(n) == [mat |-> [i \in 1..n |-> [j \in 1..n |-> IF i = j THEN 1 ELSE 0]]]

dmvnorm ==
    \E mean \in {NoneV, MeanVec}, sigma \in {NoneV, Sigma} :
        LET x == ObsVec
            m == IF IsNone(mean) THEN Repeat0(Len(x.vec)) ELSE mean
            c == IF IsNone(sigma) THEN Identity(Len(x.vec)) ELSE sigma
        IN  /\ call' = CallRec("dmvnorm", x, [mean |-> mean, sigma |-> sigma], FALSE, NoSeed, 0,
                    St("multivariate_normal", "pdf", x, [mean |-> m, cov |-> c]))
            /\ UNCHANGED <<glob, gens>>

(***************************************************************************)
(* Discrete distributions                                                  *)
(***************************************************************************)
dpois ==
    \E x \in Obs, mu \in Reals, log \in BOOLEAN :
        /\ call' = CallRec("dpois", x, [mu |-> mu], log, NoSeed, 0,
                IF log
                THEN St("poisson", "logpmf", x, [mu |-> mu])
                ELSE St("poisson", "pmf", x, [mu |-> mu]))
        /\ UNCHANGED <<glob, gens>>

ppois ==
    \E q \in Obs \cup Feed("qpois"), mu \in Reals, log \in BOOLEAN :
        /\ call' = CallRec("ppois", q, [mu |-> mu], log, NoSeed, 0,
                IF log
                THEN St("poisson", "logcdf", q, [mu |-> mu])
                ELSE St("poisson", "cdf", q, [mu |-> mu]))
        /\ UNCHANGED <<glob, gens>>

\* qpois takes a log argument and does not read it
qpois ==
    \E q \in Probs \cup Feed("ppois"), mu \in Reals, log \in BOOLEAN :
        /\ call' = CallRec("qpois", q, [mu |-> mu], log, NoSeed, 0,
                St("poisson", "ppf", q, [mu |-> mu]))
        /\ UNCHANGED <<glob, gens>>

dbinom ==
    \E x \in Obs, sp \in SizeProb, log \in BOOLEAN :
        /\ call' = CallRec("dbinom", x, [size |-> sp[1], prob |-> sp[2]], log, NoSeed, 0,
                IF log
                THEN St("binom", "logpmf", x, [n |-> sp[1], p |-> sp[2]])
                ELSE St("binom", "pmf", x, [n |-> sp[1], p |-> sp[2]]))
        /\ UNCHANGED <<glob, gens>>

pbinom ==
    \E q \in Obs \cup Feed("qbinom"), sp \in SizeProb, log \in BOOLEAN :
        /\ call' = CallRec("pbinom", q, [size |-> sp[1], prob |-> sp[2]], log, NoSeed, 0,
                IF log
                THEN St("binom", "logcdf", q, [n |-> sp[1], p |-> sp[2]])
                ELSE St("binom", "cdf", q, [n |-> sp[1], p |-> sp[2]]))
        /\ UNCHANGED <<glob, gens>>

qbinom ==
    \E q \in Probs \cup Feed("pbinom"), sp \in SizeProb :
        /\ call' = CallRec("qbinom", q, [size |-> sp[1], prob |-> sp[2]], FALSE, NoSeed, 0,
                St("binom", "ppf", q, [n |-> sp[1], p |-> sp[2]]))
        /\ UNCHANGED <<glob, gens>>

(***************************************************************************)
(* Negative binomial distribution                                         *)
(***************************************************************************)
\* floating-point expressions over gammaln, np.log and np.exp, kept as written
GammaLn(v) == [op |-> "gammaln", args |-> <<v>>]
Ln(v) == [op |-> "log", args |-> <<v>>]
Exp(v) == [op |-> "exp", args |-> <<v>>]
Neg(v) == [op |-> "neg", args |-> <<v>>]
Plus(a, b) == [op |-> "add", args |-> <<a, b>>]
Minus(a, b) == [op |-> "sub", args |-> <<a, b>>]
Times(a, b) == [op |-> "mul", args |-> <<a, b>>]

One == Rat(1, 1)

nb2pmf(x, mu, k, log) ==
    LET logpmf_p1 == Neg(GammaLn(RatAdd(x, One)))
        logpmf_p2 == Neg(GammaLn(k))
        logpmf_p3 == Times(k, Minus(Ln(k), Ln(RatAdd(k, mu))))
        logpmf_p4 == Times(x, Minus(Ln(mu), Ln(RatAdd(k, mu))))
        logpmf_p5 == GammaLn(RatAdd(k, x))
        logpmf == Plus(Plus(Plus(Plus(logpmf_p1, logpmf_p2), logpmf_p3),
                            logpmf_p4), logpmf_p5)
    IN  IF log THEN logpmf ELSE Exp(logpmf)

\* the record of a call of nb2pmf
Nb2Call(x, mu, k, log) ==
    [callee |-> "nb2pmf", x |-> x, mu |-> mu, k |-> k, log |-> log]

NeitherError == "Exception: Neither 'prob' or 'mu' were specified"
BothError == "Exception: 'prob' and 'mu' both specified"

\* dnbinom without the check that prob and mu are not both given
dnbinom_body_NoConflictCheck(x, size, prob, mu, log) ==
    IF IsNone(mu) /\ IsNone(prob)
    THEN Raised(NeitherError, <<>>)
    ELSE IF ~IsNone(mu)
    THEN IF log
         THEN Returned(nb2pmf(x, mu, size, TRUE), <<Nb2Call(x, mu, size, TRUE)>>)
         ELSE Returned(nb2pmf(x, mu, size, FALSE), <<Nb2Call(x, mu, size, FALSE)>>)
    ELSE IF log
    THEN St("nbinom", "logpmf", x, [n |-> size, p |-> prob])
    ELSE St("nbinom", "pmf", x, [n |-> size, p |-> prob])

\* dnbinom that does not forward log on the mu path
dnbinom_body_LogDropped(x, size, prob, mu, log) ==
    IF IsNone(mu) /\ IsNone(prob)
    THEN Raised(NeitherError, <<>>)
    ELSE IF ~IsNone(mu)
    THEN IF ~IsNone(prob)
         THEN Raised(BothError, <<>>)
         ELSE Returned(nb2pmf(x, mu, size, FALSE), <<Nb2Call(x, mu, size, FALSE)>>)
    ELSE IF log
    THEN St("nbinom", "logpmf", x, [n |-> size, p |-> prob])
    ELSE St("nbinom", "pmf", x, [n |-> size, p |-> prob])

dnbinom_body(x, size, prob, mu, log) ==
    IF IsNone(mu) /\ IsNone(prob)
    THEN Raised(NeitherError, <<>>)
    ELSE IF ~IsNone(mu)
    THEN IF ~IsNone(prob)
         THEN Raised(BothError, <<>>)
         ELSE IF log
         THEN Returned(nb2pmf(x, mu, size, TRUE), <<Nb2Call(x, mu, size, TRUE)>>)
         ELSE Returned(nb2pmf(x, mu, size, FALSE), <<Nb2Call(x, mu, size, FALSE)>>)
    ELSE IF log
    THEN St("nbinom", "logpmf", x, [n |-> size, p |-> prob])
    ELSE St("nbinom", "pmf", x, [n |-> size, p |-> prob])

\* prob and mu, each left unset (None) or given
ProbArgs == {NoneV, Rat(1, 2)}
MuArgs == {NoneV, Rat(2, 1), Rat(5, 1)}

dnbinom ==
    \E x \in Obs, size \in Reals, prob \in ProbArgs, mu \in MuArgs, log \in BOOLEAN :
        /\ call' = CallRec("dnbinom", x, [size |-> size, prob |-> prob, mu |-> mu],
                           log, NoSeed, 0, dnbinom_body(x, size, prob, mu, log))
        /\ UNCHANGED <<glob, gens>>

(***************************************************************************)
(* Gamma distribution in terms of mean and shape                           *)
(***************************************************************************)
RatNeg(a) == Rat(-a.num, a.den)

RatMul(a, b) == Rat(a.num * b.num, a.den * b.den)

\* a/b for b > 0
RatDiv(a, b) == Rat(a.num * b.den, a.den * b.num)

\* gamma_mu_shape with the logarithm of shape/mu in place of that of mu/shape
gamma_mu_shape_body_LogInverted(x, mu, shape, log) ==
    LET logpdf_p1 == Neg(GammaLn(shape))
        logpdf_p2 == Times(RatSub(shape, One), Ln(x))
        logpdf_p3 == Times(RatNeg(shape), Ln(RatDiv(shape, mu)))
        logpdf_p4 == RatDiv(RatMul(RatNeg(shape), x), mu)
        logpdf == Plus(Plus(Plus(logpdf_p1, logpdf_p2), logpdf_p3), logpdf_p4)
    IN  IF log THEN logpdf ELSE Exp(logpdf)

gamma_mu_shape_body(x, mu, shape, log) ==
    LET logpdf_p1 == Neg(GammaLn(shape))
        logpdf_p2 == Times(RatSub(shape, One), Ln(x))
        logpdf_p3 == Times(RatNeg(shape), Ln(RatDiv(mu, shape)))
        logpdf_p4 == RatDiv(RatMul(RatNeg(shape), x), mu)
        logpdf == Plus(Plus(Plus(logpdf_p1, logpdf_p2), logpdf_p3), logpdf_p4)
    IN  IF log THEN logpdf ELSE Exp(logpdf)

\* (mu, shape): the first two are the means of the gamma laws of Pairs
\* (mu = shape/rate)
MuShape ==
    {<<Rat(1, 4), Rat(1, 2)>>, <<Rat(1, 1), Rat(2, 1)>>, <<Rat(3, 1), Rat(4, 1)>>}

gamma_mu_shape ==
    \E x \in Obs, ms \in MuShape, log \in BOOLEAN :
        /\ call' = CallRec("gamma_mu_shape", x, [mu |-> ms[1], shape |-> ms[2]],
                           log, NoSeed, 0,
                           Returned(gamma_mu_shape_body(x, ms[1], ms[2], log), <<>>))
        /\ UNCHANGED <<glob, gens>>

NoCall == CallRec("", NoneV, NoneV, FALSE, NoSeed, 0, Raised("", <<>>))

Init ==
    /\ glob = [src |-> "global", id |-> 0, pos |-> 0]
    /\ gens = [g \in GenIds |-> [src |-> "caller", id |-> g, pos |-> 0]]
    /\ call = NoCall

Random ==
    \/ rexp \/ rgamma \/ rnorm \/ rchisq \/ runif
    \/ rbeta \/ rmvnorm \/ rpois \/ rbinom

Density ==
    \/ dexp \/ dgamma \/ dnorm \/ dchisq \/ dunif \/ dbeta \/ dmvnorm
    \/ dpois \/ dbinom

Cumulative ==
    \/ pexp \/ pgamma \/ pnorm \/ pchisq \/ punif \/ ppois \/ pbinom

Quantile ==
    \/ qexp \/ qgamma \/ qnorm \/ qchisq \/ qunif \/ qbeta \/ qpois \/ qbinom

Next ==
    Random \/ Density \/ Cumulative \/ Quantile \/ dnbinom \/ gamma_mu_shape

Spec == Init /\ [][Next]_vars

(***************************************************************************)
(* Properties                                                              *)
(***************************************************************************)
ProbSet == ~IsNone(call.par.prob)
MuSet == ~IsNone(call.par.mu)

\* C1: dnbinom raises the missing-parameter error when neither prob nor mu
\* is given and the conflicting-parameter error when both are, in both cases
\* before nb2pmf or the delegate's mass is evaluated; with exactly one of
\* them given it raises nothing.
C1_ValidationFirst ==
    call.fn = "dnbinom" =>
        /\ (~ProbSet /\ ~MuSet) =>
               call.err = NeitherError /\ call.trace = <<>> /\ IsNone(call.res)
        /\ (ProbSet /\ MuSet) =>
               call.err = BothError /\ call.trace = <<>> /\ IsNone(call.res)
        /\ (ProbSet # MuSet) => call.err = ""

C1_Witness ==
    /\ call.fn = "dnbinom"
    /\ ProbSet /\ MuSet
    /\ call.err = BothError

\* C2: with exactly one of prob and mu given, dnbinom returns
\* nb2pmf(x, mu, k=size) with the caller's log flag when mu is given, and the
\* delegate's negative-binomial mass (log-mass when log is set) with
\* (n=size, p=prob) when prob is given; nothing else is evaluated.
C2_Dispatch ==
    (call.fn = "dnbinom" /\ ProbSet # MuSet) =>
        IF MuSet
        THEN /\ call.res = nb2pmf(call.arg, call.par.mu, call.par.size, call.log)
             /\ call.trace = <<Nb2Call(call.arg, call.par.mu, call.par.size, call.log)>>
        ELSE LET c == [lib |-> "nbinom",
                       fn |-> IF call.log THEN "logpmf" ELSE "pmf",
                       arg |-> call.arg,
                       kw |-> [n |-> call.par.size, p |-> call.par.prob]]
             IN  call.res = c /\ call.trace = <<c>>

C2_Witness ==
    /\ call.fn = "dnbinom"
    /\ MuSet /\ ~ProbSet /\ call.log
    /\ call.err = ""
    /\ call.res = nb2pmf(call.arg, call.par.mu, call.par.size, TRUE)

RandomFns ==
    {"rexp", "rgamma", "rnorm", "rchisq", "runif", "rbeta", "rmvnorm", "rpois", "rbinom"}

SeededFns == RandomFns \ {"rbeta"}

IntSeeded(c) == c.fn \in SeededFns /\ c.seed.seedt = "int" /\ c.err = ""

\* C3: two calls of a seeded random-variate function with the same integer
\* seed and the same parameters return the same draws, whatever the state of
\* the global generator.
C3_SameSeedSameDraws ==
    [][(/\ IntSeeded(call) /\ IntSeeded(call')
        /\ call'.fn = call.fn
        /\ call'.seed = call.seed
        /\ call'.n = call.n
        /\ call'.par = call.par)
       => call'.res = call.res]_vars

FalseSeed == [seedt |-> "bool", sv |-> 0]

\* the functions that resolve their seed with test_seed
ResolvingFns == {"rexp", "rgamma", "rnorm", "rchisq", "runif", "rpois", "rbinom"}

\* C4: with seed=False the draws come from a new generator holding a copy of
\* the global generator's state: they are the draws the global generator
\* would have produced next, not those of a generator seeded with a fixed
\* integer.
C4_SnapshotOfGlobal ==
    [][(call'.fn \in ResolvingFns /\ call'.seed = FalseSeed /\ call'.err = "")
       => \A i \in 1..call'.n :
              call'.res.items[i].u =
                  [src |-> glob.src, id |-> glob.id, at |-> glob.pos + i - 1]]_vars

Recognized(seed) == seed.seedt \in {"None", "bool", "int", "RandomState"}

\* C5: a random-variate call with seed=None draws from and advances the
\* global generator; with any other recognized seed it leaves the global
\* generator's state as it was.
C5_OnlyNoneAdvancesGlobal ==
    [][(call'.fn \in RandomFns /\ Recognized(call'.seed) /\ call'.err = "")
       => IF call'.seed = NoSeed
          THEN glob' = Advance(glob, call'.n)
          ELSE glob' = glob]_vars

\* C6: a random-variate call whose seed is none of the recognized forms (a
\* string, a float) fails with the invalid-seed error before any draw is
\* made, and leaves the generators as they were.
C6_InvalidSeedRejected ==
    [][(call'.fn \in RandomFns /\ ~Recognized(call'.seed))
       => /\ call'.err = SeedError
          /\ call'.trace = <<>>
          /\ glob' = glob
          /\ gens' = gens]_vars

\* C7: every random-variate function returns a bare scalar when n = 1 and an
\* array of exactly n draws when n > 1.
C7_ScalarOrArray ==
    (call.fn \in RandomFns /\ call.err = "") =>
        IF call.n = 1
        THEN call.res.shape = "scalar"
        ELSE call.res.shape = "array" /\ Len(call.res.items) = call.n

\* the families with a cumulative and a quantile function
PQFamilies ==
    {[p |-> "pexp", q |-> "qexp", lib |-> "expon"],
     [p |-> "pgamma", q |-> "qgamma", lib |-> "gamma"],
     [p |-> "pnorm", q |-> "qnorm", lib |-> "norm"],
     [p |-> "pchisq", q |-> "qchisq", lib |-> "chi2"],
     [p |-> "punif", q |-> "qunif", lib |-> "uniform"],
     [p |-> "ppois", q |-> "qpois", lib |-> "poisson"],
     [p |-> "pbinom", q |-> "qbinom", lib |-> "binom"]}

\* C8: the cumulative and the quantile function of a family undo each other:
\* quantile(cumulative(x)) = x for x strictly inside the support and
\* cumulative(quantile(p)) = p for p in (0,1).  (The second is stated for the
\* continuous families, where it is exact for every p.)
C8_RoundTrip ==
    [][\A f \in PQFamilies :
        /\ (/\ call.fn = f.p /\ ~call.log /\ call.trace # <<>>
            /\ Inside(f.lib, call.trace[1].kw, call.arg)
            /\ call'.fn = f.q
            /\ call'.par = call.par
            /\ call'.arg = call.res)
           => call'.res = call.arg
        /\ (/\ call.fn = f.q /\ call.err = ""
            /\ f.lib \in Continuous
            /\ IsProb(call.arg)
            /\ call'.fn = f.p /\ ~call'.log
            /\ call'.par = call.par
            /\ call'.arg = call.res)
           => call'.res = call.arg]_vars

\* the delegate law of each density function
DensityLib(fn) ==
    CASE fn = "dexp" -> "expon"
      [] fn = "dgamma" -> "gamma"
      [] fn = "dnorm" -> "norm"
      [] fn = "dchisq" -> "chi2"
      [] fn = "dunif" -> "uniform"
      [] fn = "dbeta" -> "beta"
      [] fn = "dpois" -> "poisson"
      [] fn = "dbinom" -> "binom"

DensityFns ==
    {"dexp", "dgamma", "dnorm", "dchisq", "dunif", "dbeta", "dpois", "dbinom"}

\* C9: a density function returns the density (mass) of its own family when
\* log is False and the logarithm of that density when log is True.
C9_DensityOfOwnFamily ==
    call.fn \in DensityFns =>
        LET m == IF DensityLib(call.fn) \in Continuous THEN "pdf" ELSE "pmf"
        IN  /\ call.err = ""
            /\ IsTerm(call.res)
            /\ call.res.lib = DensityLib(call.fn)
            /\ call.res.fn = IF call.log THEN "log" \o m ELSE m
            /\ call.res.arg = call.arg

FamilyOf(fn) ==
    CASE fn \in {"dexp", "pexp", "qexp", "rexp"} -> "exponential"
      [] fn \in {"dgamma", "pgamma", "qgamma", "rgamma"} -> "gamma"
      [] fn \in {"dnorm", "pnorm", "qnorm", "rnorm"} -> "normal"
      [] fn \in {"dchisq", "pchisq", "qchisq", "rchisq"} -> "chi-squared"
      [] fn \in {"dunif", "punif", "qunif", "runif"} -> "uniform"
      [] fn \in {"dbeta", "qbeta", "rbeta"} -> "beta"
      [] fn \in {"dmvnorm", "rmvnorm"} -> "multivariate normal"
      [] fn \in {"dpois", "ppois", "qpois", "rpois"} -> "Poisson"
      [] fn \in {"dbinom", "pbinom", "qbinom", "rbinom"} -> "binomial"
      [] OTHER -> ""

\* the parameters a family's operations are to hand to scipy.stats
ScipyKw(fam, par, x) ==
    CASE fam = "exponential" -> [scale |-> Recip(par.rate)]
      [] fam = "gamma" -> [a |-> par.shape, scale |-> Recip(par.rate)]
      [] fam = "normal" -> [loc |-> par.mean, scale |-> par.sd]
      [] fam = "chi-squared" -> [df |-> par.df]
      [] fam = "uniform" -> [loc |-> par.min, scale |-> RatSub(par.max, par.min)]
      [] fam = "beta" -> [a |-> par.shape1, b |-> par.shape2]
      [] fam = "multivariate normal" ->
             [mean |-> IF IsNone(par.mean) THEN Repeat0(Len(x.vec)) ELSE par.mean,
              cov |-> IF IsNone(par.sigma) THEN Identity(Len(x.vec)) ELSE par.sigma]
      [] fam = "Poisson" -> [mu |-> par.mu]
      [] fam = "binomial" -> [n |-> par.size, p |-> par.prob]

\* the same parameters under the names numpy's samplers give them
NumpyKw(fam, par) ==
    CASE fam = "exponential" -> [scale |-> Recip(par.rate)]
      [] fam = "gamma" -> [shape |-> par.shape, scale |-> Recip(par.rate)]
      [] fam = "normal" -> [loc |-> par.mean, scale |-> par.sd]
      [] fam = "chi-squared" -> [df |-> par.df]
      [] fam = "uniform" -> [low |-> par.min, high |-> par.max]
      [] fam = "Poisson" -> [lam |-> par.mu]
      [] fam = "binomial" -> [n |-> par.size, p |-> par.prob]

\* C10: every operation of a rate-parameterized family (exponential, gamma)
\* hands scale = 1/rate to the delegate, every operation of the uniform
\* family hands it (loc = min, scale = max - min) or (low = min, high = max),
\* and every other family hands it the caller's parameters unchanged (a
\* parameter of dmvnorm left unset is the zero vector, the identity matrix);
\* the same for all operations of a family and for both values of log.
C10_ParameterTranslation ==
    (FamilyOf(call.fn) # "" /\ call.trace # <<>>) =>
        /\ Len(call.trace) = 1
        /\ call.trace[1].kw =
               IF call.trace[1].lib \in {"np.random", "RandomState"}
               THEN NumpyKw(FamilyOf(call.fn), call.par)
               ELSE ScipyKw(FamilyOf(call.fn), call.par, call.arg)

C10_Witness ==
    /\ call.fn = "rexp"
    /\ call.err = ""
    /\ call.par.rate # One
    /\ call.trace[1].kw.scale = Recip(call.par.rate)

(***************************************************************************)
(* The real number an expression over gammaln and np.log stands for, as a  *)
(* linear form: a set of terms [k, of, c], c times the atom (k, of), the   *)
(* atoms being 1, gammaln(r) and the logarithms of the primes.             *)
(***************************************************************************)
Primes == {2, 3, 5, 7}

RECURSIVE Val(_, _)
\* the number of times the prime p divides n > 0
Val(p, n) == IF n % p = 0 THEN 1 + Val(p, n \div p) ELSE 0

Atoms(f) == {[k |-> t.k, of |-> t.of] : t \in f}

Coef(f, a) ==
    IF \E t \in f : t.k = a.k /\ t.of = a.of
    THEN (CHOOSE t \in f : t.k = a.k /\ t.of = a.of).c
    ELSE Rat(0, 1)

LAdd(f, g) ==
    {t \in {[k |-> a.k, of |-> a.of, c |-> RatAdd(Coef(f, a), Coef(g, a))] :
                a \in Atoms(f) \cup Atoms(g)} : t.c.num # 0}

LScale(r, f) ==
    {t \in {[k |-> u.k, of |-> u.of, c |-> RatMul(r, u.c)] : u \in f} : t.c.num # 0}

LConst(r) == LScale(r, {[k |-> "one", of |-> One, c |-> One]})

\* log(n/d) = sum over the primes p of (Val(p, n) - Val(p, d)) log(p)
LLog(r) ==
    {t \in {[k |-> "log", of |-> Rat(p, 1),
             c |-> Rat(Val(p, r.num) - Val(p, r.den), 1)] : p \in Primes} :
        t.c.num # 0}

RECURSIVE Real(_)
Real(e) ==
    IF IsRat(e) THEN LConst(e)
    ELSE CASE e.op = "gammaln" -> {[k |-> "gammaln", of |-> e.args[1], c |-> One]}
           [] e.op = "log" -> LLog(e.args[1])
           [] e.op = "neg" -> LScale(Rat(-1, 1), Real(e.args[1]))
           [] e.op = "add" -> LAdd(Real(e.args[1]), Real(e.args[2]))
           [] e.op = "sub" -> LAdd(Real(e.args[1]), LScale(Rat(-1, 1), Real(e.args[2])))
           [] e.op = "mul" -> LScale(e.args[1], Real(e.args[2]))

\* the logarithm of the gamma density with shape a and scale s at x, the
\* number st.gamma.logpdf(x, a=a, scale=s) stands for:
\*   (a - 1) log(x) - x/s - gammaln(a) - a log(s)
GammaLogpdf(t) ==
    LET x == t.arg
        a == t.kw.a
        sc == t.kw.scale
    IN  LAdd(LAdd(LAdd(LScale(RatSub(a, One), LLog(x)),
                       LConst(RatNeg(RatDiv(x, sc)))),
                  LScale(Rat(-1, 1), Real(GammaLn(a)))),
             LScale(RatNeg(a), LLog(sc)))

\* C11: gamma_mu_shape(x, mu, a, log=True) is the number
\* dgamma(x, shape=a, rate=a/mu, log=True) returns (equal as real numbers;
\* rounding is not modelled), and gamma_mu_shape with log=False is the
\* exponential of its log=True value.
C11_MeanShapeIsShapeRate ==
    [][/\ (/\ call.fn = "dgamma" /\ call.log /\ call.err = ""
           /\ call'.fn = "gamma_mu_shape" /\ call'.log
           /\ call'.arg = call.arg
           /\ call'.par.shape = call.par.shape
           /\ call.par.rate = RatDiv(call'.par.shape, call'.par.mu))
          => Real(call'.res) = GammaLogpdf(call.res)
       /\ (call'.fn = "gamma_mu_shape" /\ ~call'.log)
          => call'.res = Exp(gamma_mu_shape_body(call'.arg, call'.par.mu,
                                                 call'.par.shape, TRUE))]_vars

C11_Witness ==
    /\ call.fn = "gamma_mu_shape"
    /\ call.log
    /\ call.arg # One
    /\ \E sr \in Pairs :
           /\ sr[1] = call.par.shape
           /\ sr[2] = RatDiv(call.par.shape, call.par.mu)
           /\ Real(call.res) =
                  GammaLogpdf([lib |-> "gamma", fn |-> "logpdf", arg |-> call.arg,
                               kw |-> [a |-> sr[1], scale |-> Recip(sr[2])]])

====
